---- MODULE Spec2Model ----
(***************************************************************************)
(* Model of generate_sb_efi.py: the cli() run (scan of the boot directory, *)
(* Kernel construction, build, write, post steps) over a file system made  *)
(* of named directories.  File names and file contents are sequences of    *)
(* tokens, so that prefix stripping, name concatenation, decompression and *)
(* concatenation of blobs are computed and not assumed.                    *)
(***************************************************************************)
EXTENDS Integers, Sequences, FiniteSets, TLC

\* Number of invocations of cli() in one behaviour.
MaxRuns == 2
\* Number of kernel files the boot directory holds initially.
MaxKernels == 2

(***************************************************************************)
(* Names, directories, paths                                               *)
(***************************************************************************)
\* config['source']['prefix']
prefix == <<"vmlinuz">>
\* config['source']['initramfs'] when it is set
initramfs_prefix == <<"initramfs">>
\* config['source']['ucode'] when it is set
ucode_name == <<"ucode.img">>
\* config['source']['cmdline']
cmdline == <<"root=/dev/sda1">>
\* default of Kernel.__init__'s initramfs_types
initramfs_types == << <<>>, <<"-fallback">> >>

bootdir == <<"boot">>
builddir == <<"build">>
targetdir == <<"efi">>
\* config.get('copydir', None) = None
NoDir == <<>>
\* values the copydir key of the configuration takes in the model
CopyDirs == {NoDir, <<"copies">>, bootdir}

Path(d, n) == [dir |-> d, name |-> n]
NoPath == Path(<<>>, <<>>)

\* the kernel files that may lie in the boot directory
KernelFiles == {prefix, prefix \o <<"-lts">>, prefix \o <<"-lts", "-fallback">>}

\* an empty file system / an empty dict
NoFiles == [p \in {} |-> <<>>]
Put(files, p, c) == (p :> c) @@ files
Remove(files, S) == [p \in (DOMAIN files) \ S |-> files[p]]

\* Path.mkdir(parents=True, exist_ok=True)
mkdir(ds, d) == ds \cup {SubSeq(d, 1, n) : n \in 1..Len(d)}

(***************************************************************************)
(* File contents                                                           *)
(***************************************************************************)
KernelContent(name) == <<"bzImage">> \o name
\* a gzip-compressed cpio archive
GzContent(name) == <<"gz", "cpio">> \o name
\* a file zcat cannot decompress
CorruptContent == <<"garbage">>
UcodeContent == <<"GenuineIntel", "AuthenticAMD">>
OsRelease == <<"os-release">>
Stub == <<"linuxx64.efi.stub">>

\* subprocess.run(['zcat', path], capture_output=True): exit status and stdout
zcat(files, p) ==
    IF p \in DOMAIN files /\ files[p] # <<>> /\ Head(files[p]) = "gz"
    THEN [rc |-> 0, stdout |-> Tail(files[p])]
    ELSE [rc |-> 1, stdout |-> <<>>]

(***************************************************************************)
(* Kernel: version, companion files                                        *)
(***************************************************************************)
\* self.version = self.kernel_name[len(self.prefix)::]
extract_version(name) == SubSeq(name, Len(prefix) + 1, Len(name))

\* self.path.parent / f'{self.initramfs_prefix}{self.version}{suffix}.img'
InitramfsPath(name, t) ==
    Path(bootdir, initramfs_prefix \o extract_version(name) \o t \o <<".img">>)
\* self.path.parent / self.ucode_name
UcodePath == Path(bootdir, ucode_name)

\* the companion files find_initramfs checks, in the order it checks them
RequiredPaths(cfg, name) ==
    (IF cfg.initramfs
     THEN [n \in 1..Len(initramfs_types) |-> InitramfsPath(name, initramfs_types[n])]
     ELSE <<>>)
    \o (IF cfg.ucode THEN <<UcodePath>> ELSE <<>>)

\* find_initramfs without its check of the microcode image
find_initramfs_no_ucode_check(cfg, files, name) ==
    LET req == RequiredPaths([cfg EXCEPT !.ucode = FALSE], name)
        miss == {n \in 1..Len(req) : req[n] \notin DOMAIN files}
    IN IF miss = {} THEN NoPath
       ELSE req[CHOOSE n \in miss : \A m \in miss : n <= m]

\* the path whose absence makes find_initramfs raise FileNotFoundError
find_initramfs(cfg, files, name) ==
    LET req == RequiredPaths(cfg, name)
        miss == {n \in 1..Len(req) : req[n] \notin DOMAIN files}
    IN IF miss = {} THEN NoPath
       ELSE req[CHOOSE n \in miss : \A m \in miss : n <= m]

(***************************************************************************)
(* bootdir.glob(f'{prefix}*')                                              *)
(***************************************************************************)
Matches(name) == Len(name) >= Len(prefix) /\ SubSeq(name, 1, Len(prefix)) = prefix

TokenRank(tok) ==
    CASE tok = "vmlinuz" -> 1
      [] tok = "-lts" -> 2
      [] tok = "-fallback" -> 3
      [] tok = ".signed" -> 4
      [] OTHER -> 5

RECURSIVE NameKey(_)
NameKey(name) == IF name = <<>> THEN 0 ELSE TokenRank(Head(name)) + 6 * NameKey(Tail(name))

RECURSIVE Sorted(_, _)
\* the directory listing: one fixed order for one directory content
Sorted(S, desc) ==
    IF S = {} THEN <<>>
    ELSE LET m == CHOOSE x \in S : \A y \in S :
                      IF desc THEN NameKey(x) >= NameKey(y) ELSE NameKey(x) <= NameKey(y)
         IN <<m>> \o Sorted(S \ {m}, desc)

glob(files, desc) ==
    Sorted({p.name : p \in {q \in DOMAIN files : q.dir = bootdir /\ Matches(q.name)}}, desc)

(***************************************************************************)
(* clean(targetdir)                                                        *)
(***************************************************************************)
clean(files, ds, d) ==
    IF d \in ds THEN Remove(files, {p \in DOMAIN files : p.dir = d}) ELSE files

(***************************************************************************)
(* Kernel.build                                                            *)
(***************************************************************************)
\* self.builddir = builddir / self.version
WorkDir(name) == builddir \o extract_version(name)
CmdlinePath(name) == Path(WorkDir(name), <<"cmdline.txt">>)
\* self.builddir / f'initramfs{initramfs_type}'
BlobPath(name, t) == Path(WorkDir(name), <<"initramfs">> \o t)
\* Path(self.builddir / f'{self.kernel_name}{initramfs_type}')
TargetPath(name, t) == Path(WorkDir(name), name \o t)
\* self.target[t].parent / f'{self.target[t].name}.signed.efi'
ResultPath(tgt) == Path(tgt.dir, tgt.name \o <<".signed.efi">>)

OsReleasePath == Path(<<"etc">>, <<"os-release">>)
StubPath == Path(<<"usr">>, <<"linuxx64.efi.stub">>)

\* open(path, 'ab'): an existing file keeps its content
OpenAppend(files, p) == IF p \in DOMAIN files THEN files ELSE Put(files, p, <<>>)
\* open(path, 'wb'): the file is created, or truncated when it exists
OpenWb(files, p) == Put(files, p, <<>>)
\* file.write(bytes) on an open file
WriteBytes(files, p, c) == Put(files, p, files[p] \o c)

\* extract_initramfs: the file system it leaves, zcat's exit status, the error raised
extract_initramfs(cfg, files, name, t) ==
    IF ~cfg.initramfs
    THEN \* self.initramfs is None: self.initramfs[initramfs_type] raises
         [fs |-> files, zcat |-> FALSE, rc |-> 0, err |-> "TypeError"]
    ELSE LET z == zcat(files, InitramfsPath(name, t))
             f1 == WriteBytes(OpenWb(files, BlobPath(name, t)), BlobPath(name, t), z.stdout)
         IN IF ~cfg.ucode
            THEN [fs |-> f1, zcat |-> TRUE, rc |-> z.rc, err |-> ""]
            ELSE IF UcodePath \notin DOMAIN files
            THEN [fs |-> f1, zcat |-> TRUE, rc |-> z.rc, err |-> "FileNotFoundError"]
            ELSE [fs |-> WriteBytes(f1, BlobPath(name, t), files[UcodePath]),
                  zcat |-> TRUE, rc |-> z.rc, err |-> ""]

\* the sections list of assemble_single_file
sections(name, t) ==
    << [section |-> ".osrel", file |-> OsReleasePath, offset |-> "0x20000"],
       [section |-> ".cmdline", file |-> CmdlinePath(name), offset |-> "0x30000"],
       [section |-> ".linux", file |-> Path(bootdir, name), offset |-> "0x40000"],
       [section |-> ".initrd", file |-> BlobPath(name, t), offset |-> "0x3000000"] >>

RECURSIVE SectionBytes(_, _)
\* what objcopy adds for --add-section / --change-section-vma, in argument order
SectionBytes(files, secs) ==
    IF secs = <<>> THEN <<>>
    ELSE <<Head(secs).section, Head(secs).offset>> \o files[Head(secs).file]
         \o SectionBytes(files, Tail(secs))

\* objcopy <sections> <stub> <out>: exit status and file system
objcopy(e, files, name, secs, stub, out) ==
    IF (e.fault.tool = "objcopy" /\ e.fault.kernel = name)
       \/ stub \notin DOMAIN files
       \/ \E n \in 1..Len(secs) : secs[n].file \notin DOMAIN files
    THEN [rc |-> 1, fs |-> files]
    ELSE [rc |-> 0, fs |-> Put(files, out, files[stub] \o SectionBytes(files, secs))]

\* sbsign --key --cert --output <out> <in>: exit status and file system
sbsign(e, files, name, in, out) ==
    IF (e.fault.tool = "sbsign" /\ e.fault.kernel = name) \/ in \notin DOMAIN files
    THEN [rc |-> 1, fs |-> files]
    ELSE [rc |-> 0, fs |-> Put(files, out, files[in] \o <<"signature">>)]

(***************************************************************************)
(* Kernel.write                                                            *)
(***************************************************************************)
\* 'fallback' in initramfs_type
IsFallback(t) == \E n \in 1..Len(t) : t[n] \in {"-fallback", "fallback"}
\* the test written as initramfs_type == 'fallback'
SkipTargetExactName(cfg, t) == t = <<"fallback">> /\ ~cfg.use_fallback
\* if 'fallback' in initramfs_type and not self.use_fallback: continue
SkipTarget(cfg, t) == IsFallback(t) /\ ~cfg.use_fallback

\* copyfile(src, dst), with the record of the (kernel, tag) pairs each path
\* was written for in this run
copyfile(st, src, dst, name, t) ==
    IF st.err # "" THEN st
    ELSE IF src \notin DOMAIN st.fs THEN [st EXCEPT !.err = "FileNotFoundError"]
    ELSE [fs |-> Put(st.fs, dst, st.fs[src]),
          deployedBy |-> Put(st.deployedBy, dst,
                             (IF dst \in DOMAIN st.deployedBy THEN st.deployedBy[dst] ELSE {})
                             \cup {[kernel |-> name, tag |-> t]}),
          err |-> ""]

\* one iteration of write's loop over initramfs_types
WriteVariant(cfg, st, tgt, res, name, t) ==
    LET s1 == IF cfg.copydir # NoDir
              THEN copyfile(st, res, Path(cfg.copydir, tgt.name \o <<".signed">>), name, t)
              ELSE st
    IN IF SkipTarget(cfg, t) THEN s1
       ELSE copyfile(s1, res, Path(targetdir, tgt.name), name, t)

RECURSIVE WriteLoop(_, _, _, _, _, _)
WriteLoop(cfg, st, tgts, ress, name, n) ==
    IF n > Len(initramfs_types) THEN st
    ELSE LET t == initramfs_types[n]
         IN IF <<name, t>> \notin DOMAIN tgts \/ <<name, t>> \notin DOMAIN ress
            THEN [st EXCEPT !.err = "KeyError"]
            ELSE WriteLoop(cfg,
                           WriteVariant(cfg, st, tgts[<<name, t>>], ress[<<name, t>>], name, t),
                           tgts, ress, name, n + 1)

\* refind(targetdir)
RefindPath == Path(targetdir, <<"refind_linux.conf">>)
RefindContent == <<"\"Boot\"  \"\"">>

(***************************************************************************)
(* State                                                                   *)
(***************************************************************************)
VARIABLES
    fs,            \* the file system: path -> content
    dirs,          \* the directories that exist
    config,        \* the configuration file
    env,           \* what the run does not control: listing order, tool faults
    kwargs,        \* the command-line flags of the current run
    pc,            \* position of cli()
    runs,          \* number of runs started
    kernels,       \* the listing bootdir.glob(prefix*) of the current run
    constructed,   \* number of Kernel objects constructed in the current run
    idx,           \* index in kernels of the kernel being built or written
    tagIdx,        \* index in initramfs_types of the variant being built
    target,        \* Kernel.target of every kernel: (name, tag) -> path
    result,        \* Kernel.result of every kernel: (name, tag) -> path
    err,           \* the exception that ended the run
    calls,         \* external tools invoked in the current run, in order
    extractCalled, \* (name, tag) for which extract_initramfs was entered
    deployedBy,    \* path -> the (kernel, tag) pairs copied to it in the current run
    prev,          \* file system, directories, listing, outcome when the run started
    same,          \* the run repeats the previous one: same configuration and flags
    edited         \* the configuration was edited since the last run started

vars == <<fs, dirs, config, env, kwargs, pc, runs, kernels, constructed, idx, tagIdx,
          target, result, err, calls, extractCalled, deployedBy, prev,
          same, edited>>

NoErr == [type |-> "", phase |-> "", path |-> NoPath]
Raise(type, phase, path) == [type |-> type, phase |-> phase, path |-> path]

\* the initramfs files the kernels of a boot directory need
InitramfsOf(names) ==
    {InitramfsPath(k, initramfs_types[n]) : k \in names, n \in 1..Len(initramfs_types)}

\* one initramfs file of the boot directory may be absent or not a gzip file
Defects(cfg, names) ==
    {[kind |-> "none", path |-> NoPath]} \cup
    (IF cfg.initramfs
     THEN [kind : {"missing", "corrupt"}, path : InitramfsOf(names)]
     ELSE {})

\* one kernel's images may be rejected by objcopy or by sbsign
Faults(names) ==
    {[tool |-> "none", kernel |-> <<>>]} \cup [tool : {"objcopy", "sbsign"}, kernel : names]

\* a run meets at most one of them
Anomalies(cfg, names) ==
    {a \in [defect : Defects(cfg, names), fault : Faults(names)] :
        a.defect.kind = "none" \/ a.fault.tool = "none"}

BootFiles(names, defect, ucodeThere) ==
    [p \in ({Path(bootdir, k) : k \in names}
            \cup {q \in InitramfsOf(names) : ~(defect.kind = "missing" /\ defect.path = q)}
            \cup (IF ucodeThere THEN {UcodePath} ELSE {})
            \cup {OsReleasePath, StubPath}) |->
        IF p = OsReleasePath THEN OsRelease
        ELSE IF p = StubPath THEN Stub
        ELSE IF p = UcodePath THEN UcodeContent
        ELSE IF p.name \in names THEN KernelContent(p.name)
        ELSE IF defect.kind = "corrupt" /\ defect.path = p THEN CorruptContent
        ELSE GzContent(p.name)]

Init ==
    /\ \E names \in {S \in SUBSET KernelFiles : Cardinality(S) <= MaxKernels} :
       \E cfg \in [initramfs : BOOLEAN, ucode : BOOLEAN, use_fallback : BOOLEAN,
                   copydir : CopyDirs, refind : BOOLEAN] :
       \E a \in Anomalies(cfg, names) :
       \E ucodeThere \in (IF cfg.ucode THEN BOOLEAN ELSE {TRUE}) :
       \E desc \in BOOLEAN :
          /\ config = cfg
          /\ env = [desc |-> desc, fault |-> a.fault]
          /\ fs = BootFiles(names, a.defect, ucodeThere)
    /\ dirs = {bootdir, <<"etc">>, <<"usr">>}
    /\ kwargs = [clean |-> FALSE, clean_copies |-> FALSE]
    /\ pc = "idle"
    /\ runs = 0
    /\ kernels = <<>>
    /\ constructed = 0
    /\ idx = 1
    /\ tagIdx = 1
    /\ target = NoFiles
    /\ result = NoFiles
    /\ err = NoErr
    /\ calls = <<>>
    /\ extractCalled = {}
    /\ deployedBy = NoFiles
    /\ prev = [fs |-> fs, dirs |-> dirs, kernels |-> <<>>, pc |-> "idle", err |-> NoErr]
    /\ same = FALSE
    /\ edited = FALSE

(***************************************************************************)
(* cli                                                                     *)
(***************************************************************************)
\* cli() up to the directory listing: flags, --clean-copies, --clean, glob
Start ==
    /\ pc \in {"idle", "done", "aborted"}
    /\ runs < MaxRuns
    /\ \E kw \in [clean : BOOLEAN, clean_copies : BOOLEAN] :
        /\ kwargs' = kw
        /\ same' = (runs >= 1 /\ ~edited /\ kw = kwargs)
        /\ IF kw.clean_copies
           THEN IF config.copydir = NoDir
                THEN /\ fs' = fs
                     /\ err' = Raise("KeyError", "cli", NoPath)
                     /\ pc' = "aborted"
                ELSE /\ fs' = clean(fs, dirs, config.copydir)
                     /\ err' = NoErr
                     /\ pc' = "done"
           ELSE /\ fs' = IF kw.clean THEN clean(fs, dirs, targetdir) ELSE fs
                /\ err' = NoErr
                /\ pc' = IF glob(fs', env.desc) = <<>> THEN "post" ELSE "construct"
        /\ kernels' = IF kw.clean_copies THEN <<>> ELSE glob(fs', env.desc)
    /\ runs' = runs + 1
    /\ edited' = FALSE
    /\ prev' = [fs |-> fs, dirs |-> dirs, kernels |-> kernels, pc |-> pc, err |-> err]
    /\ constructed' = 0
    /\ idx' = 1
    /\ tagIdx' = 1
    /\ target' = NoFiles
    /\ result' = NoFiles
    /\ calls' = <<>>
    /\ extractCalled' = {}
    /\ deployedBy' = NoFiles
    /\ UNCHANGED <<dirs, config, env>>

\* Kernel(kernel, config=source_config, key_prefix=...) for the next listed file
Construct ==
    /\ pc = "construct"
    /\ LET name == kernels[constructed + 1]
           missing == find_initramfs(config, fs, name)
       IN IF missing # NoPath
          THEN /\ err' = Raise("FileNotFoundError", "construct", missing)
               /\ pc' = "aborted"
               /\ UNCHANGED constructed
          ELSE /\ constructed' = constructed + 1
               /\ pc' = IF constructed + 1 = Len(kernels) THEN "build" ELSE "construct"
               /\ UNCHANGED err
    /\ UNCHANGED <<fs, dirs, config, env, kwargs, runs, kernels, idx, tagIdx, target,
                   result, calls, extractCalled, deployedBy, prev, same, edited>>

\* Kernel.build up to the loop: working directory, cmdline.txt, empty dicts
BuildBegin ==
    /\ pc = "build"
    /\ LET name == kernels[idx]
       IN /\ dirs' = mkdir(dirs, WorkDir(name))
          /\ fs' = WriteBytes(OpenWb(fs, CmdlinePath(name)), CmdlinePath(name),
                              cmdline \o <<"\n">>)
    /\ tagIdx' = 1
    /\ pc' = "extract"
    /\ UNCHANGED <<config, env, kwargs, runs, kernels, constructed, idx, target, result,
                   err, calls, extractCalled, deployedBy, prev, same, edited>>

\* extract_initramfs(initramfs_type)
Extract ==
    /\ pc = "extract"
    /\ LET name == kernels[idx]
           t == initramfs_types[tagIdx]
           r == extract_initramfs(config, fs, name, t)
       IN /\ extractCalled' = extractCalled \cup {<<name, t>>}
          /\ fs' = r.fs
          /\ calls' = IF r.zcat
                      THEN Append(calls, [tool |-> "zcat", kernel |-> name, tag |-> t,
                                          rc |-> r.rc])
                      ELSE calls
          /\ IF r.err # ""
             THEN /\ err' = Raise(r.err, "build", NoPath)
                  /\ pc' = "aborted"
             ELSE /\ pc' = "assemble"
                  /\ UNCHANGED err
    /\ UNCHANGED <<dirs, config, env, kwargs, runs, kernels, constructed, idx, tagIdx,
                   target, result, deployedBy, prev, same, edited>>

\* assemble_single_file(initramfs_type): objcopy, then sbsign, both through subrun
Assemble ==
    /\ pc = "assemble"
    /\ LET name == kernels[idx]
           t == initramfs_types[tagIdx]
           tgt == TargetPath(name, t)
           res == ResultPath(tgt)
           oc == objcopy(env, fs, name, sections(name, t), StubPath, tgt)
           sb == sbsign(env, oc.fs, name, tgt, res)
           call(tool, rc) == [tool |-> tool, kernel |-> name, tag |-> t, rc |-> rc]
       IN /\ target' = Put(target, <<name, t>>, tgt)
          /\ IF oc.rc # 0
             THEN /\ calls' = Append(calls, call("objcopy", oc.rc))
                  /\ fs' = oc.fs
                  /\ err' = Raise("SubprocessError", "build", NoPath)
                  /\ pc' = "aborted"
                  /\ UNCHANGED <<result, idx, tagIdx>>
             ELSE /\ calls' = calls \o <<call("objcopy", oc.rc), call("sbsign", sb.rc)>>
                  /\ result' = Put(result, <<name, t>>, res)
                  /\ fs' = sb.fs
                  /\ IF sb.rc # 0
                     THEN /\ err' = Raise("SubprocessError", "build", NoPath)
                          /\ pc' = "aborted"
                          /\ UNCHANGED <<idx, tagIdx>>
                     ELSE /\ UNCHANGED err
                          /\ IF tagIdx < Len(initramfs_types)
                             THEN /\ tagIdx' = tagIdx + 1
                                  /\ pc' = "extract"
                                  /\ UNCHANGED idx
                             ELSE /\ tagIdx' = 1
                                  /\ idx' = IF idx < Len(kernels) THEN idx + 1 ELSE 1
                                  /\ pc' = IF idx < Len(kernels) THEN "build" ELSE "write"
    /\ UNCHANGED <<dirs, config, env, kwargs, runs, kernels, constructed, extractCalled,
                   deployedBy, prev, same, edited>>

\* kernel.write(targetdir)
Write ==
    /\ pc = "write"
    /\ LET name == kernels[idx]
           st == WriteLoop(config,
                           [fs |-> fs, deployedBy |-> deployedBy, err |-> ""],
                           target, result, name, 1)
       IN /\ dirs' = IF config.copydir # NoDir
                     THEN mkdir(mkdir(dirs, targetdir), config.copydir)
                     ELSE mkdir(dirs, targetdir)
          /\ fs' = st.fs
          /\ deployedBy' = st.deployedBy
          /\ IF st.err # ""
             THEN /\ err' = Raise(st.err, "write", NoPath)
                  /\ pc' = "aborted"
                  /\ UNCHANGED idx
             ELSE /\ UNCHANGED err
                  /\ idx' = IF idx < Len(kernels) THEN idx + 1 ELSE 1
                  /\ pc' = IF idx < Len(kernels) THEN "write" ELSE "post"
    /\ UNCHANGED <<config, env, kwargs, runs, kernels, constructed, tagIdx, target, result,
                   calls, extractCalled, prev, same, edited>>

\* the post steps of cli(): efibootmgr() does nothing, refind() writes its file once
Post ==
    /\ pc = "post"
    /\ IF ~config.refind \/ RefindPath \in DOMAIN fs
       THEN /\ pc' = "done"
            /\ UNCHANGED <<fs, err>>
       ELSE IF targetdir \notin dirs
       THEN /\ err' = Raise("FileNotFoundError", "post", RefindPath)
            /\ pc' = "aborted"
            /\ UNCHANGED fs
       ELSE /\ fs' = WriteBytes(OpenWb(fs, RefindPath), RefindPath, RefindContent)
            /\ pc' = "done"
            /\ UNCHANGED err
    /\ UNCHANGED <<dirs, config, env, kwargs, runs, kernels, constructed, idx, tagIdx,
                   target, result, calls, extractCalled, deployedBy, prev,
                   same, edited>>

\* between two runs the use_fallback key of the configuration file is changed
EditConfig ==
    /\ pc \in {"done", "aborted"}
    /\ runs < MaxRuns
    /\ ~edited
    /\ config' = [config EXCEPT !.use_fallback = ~@]
    /\ edited' = TRUE
    /\ UNCHANGED <<fs, dirs, env, kwargs, pc, runs, kernels, constructed, idx, tagIdx,
                   target, result, err, calls, extractCalled, deployedBy,
                   prev, same>>

Next ==
    \/ Start
    \/ Construct
    \/ BuildBegin
    \/ Extract
    \/ Assemble
    \/ Write
    \/ Post
    \/ EditConfig

Spec == Init /\ [][Next]_vars

(***************************************************************************)
(* Properties                                                              *)
(***************************************************************************)
KernelSet == {kernels[n] : n \in 1..Len(kernels)}
Tags == {initramfs_types[n] : n \in 1..Len(initramfs_types)}
FallbackTags == {t \in Tags : t = <<"-fallback">>}
Finished == pc \in {"done", "aborted"}
\* the run went through construction, build, write and the post steps
Succeeded == pc = "done" /\ ~kwargs.clean_copies /\ ~edited
UnderBuildRoot(d) == Len(d) >= Len(builddir) /\ SubSeq(d, 1, Len(builddir)) = builddir
BuildTree(files) == [p \in {q \in DOMAIN files : UnderBuildRoot(q.dir)} |-> files[p]]
ToolFailed == \E n \in 1..Len(calls) : calls[n].rc # 0

\* the companion files the configuration requires for a kernel file
Companions(name) ==
    (IF config.initramfs THEN {InitramfsPath(name, t) : t \in Tags} ELSE {})
    \cup (IF config.ucode THEN {UcodePath} ELSE {})

\* C1: a kernel whose required initramfs or microcode file is absent is never
\* constructed; construction fails with an error naming a required path that
\* is absent, every listed kernel is constructed before any build step, and
\* the failed run has invoked no tool and written nothing under the build root.
C1_MissingCompanionAbortsBeforeBuild ==
    /\ \A n \in 1..constructed : Companions(kernels[n]) \subseteq DOMAIN fs
    /\ pc \in {"build", "extract", "assemble", "write"} => constructed = Len(kernels)
    /\ (calls # <<>> \/ extractCalled # {}) => constructed = Len(kernels)
    /\ (pc = "aborted" /\ err.phase = "construct") =>
          /\ err.type = "FileNotFoundError"
          /\ err.path \in Companions(kernels[constructed + 1])
          /\ err.path \notin DOMAIN fs
          /\ calls = <<>>
          /\ extractCalled = {}
          /\ DOMAIN deployedBy = {}
          /\ BuildTree(fs) = BuildTree(prev.fs)
          /\ {d \in dirs : UnderBuildRoot(d)} = {d \in prev.dirs : UnderBuildRoot(d)}

\* a second kernel's companion is absent after the first was constructed
C1_Witness ==
    /\ pc = "aborted"
    /\ err.phase = "construct"
    /\ constructed = 1
    /\ Len(kernels) = 2
    /\ err.path \notin DOMAIN fs

\* C2 as stated: after a successful run with use_fallback disabled the target
\* directory holds no file named {kernelFileName}{fallback tag} and the
\* archive directory, when configured, holds every {kernelFileName}{tag}.signed.
C2_Original ==
    (Succeeded /\ ~config.use_fallback) =>
        \A k \in KernelSet : \A t \in FallbackTags :
            /\ Path(targetdir, k \o t) \notin DOMAIN fs
            /\ config.copydir # NoDir =>
                   Path(config.copydir, k \o t \o <<".signed">>) \in DOMAIN fs

\* C2 amended: a successful run with use_fallback disabled makes no copy into
\* the target directory for a (kernel, tag) pair whose tag denotes fallback
\* (it removes no file that is already there), and the archive directory,
\* when configured, holds {kernelFileName}{tag}.signed, copied in this run,
\* for every kernel and fallback tag.
C2_NoFallbackCopied ==
    (Succeeded /\ ~config.use_fallback) =>
        /\ \A p \in DOMAIN deployedBy :
              p.dir = targetdir => \A d \in deployedBy[p] : d.tag \notin FallbackTags
        /\ \A k \in KernelSet : \A t \in FallbackTags :
              config.copydir # NoDir =>
                  /\ Path(config.copydir, k \o t \o <<".signed">>) \in DOMAIN fs
                  /\ [kernel |-> k, tag |-> t]
                        \in deployedBy[Path(config.copydir, k \o t \o <<".signed">>)]

\* a run with use_fallback disabled archived a fallback image and deployed a primary one
C2_Witness ==
    /\ Succeeded
    /\ ~config.use_fallback
    /\ config.copydir # NoDir
    /\ \E k \in KernelSet : \E t \in FallbackTags :
          /\ Path(config.copydir, k \o t \o <<".signed">>) \in DOMAIN deployedBy
          /\ Path(targetdir, k) \in DOMAIN deployedBy
          /\ Path(targetdir, k \o t) \notin DOMAIN fs

\* what the claim calls the decompressed initramfs bytes
Decompressed(c) == IF c # <<>> /\ Head(c) = "gz" THEN Tail(c) ELSE <<>>
ExpectedBlob(name, t) ==
    IF ~config.initramfs THEN <<>>
    ELSE Decompressed(fs[InitramfsPath(name, t)])
         \o (IF config.ucode THEN fs[UcodePath] ELSE <<>>)

\* C3: once extract_initramfs has run for a kernel and a tag, the blob
\* initramfs{tag} of the working directory is the decompressed initramfs
\* followed by the microcode, the decompressed bytes alone without microcode,
\* and empty when no initramfs prefix is configured.
C3_ComposedBlob ==
    \A kt \in extractCalled :
        /\ BlobPath(kt[1], kt[2]) \in DOMAIN fs
        /\ fs[BlobPath(kt[1], kt[2])] = ExpectedBlob(kt[1], kt[2])
        /\ Len(fs[BlobPath(kt[1], kt[2])]) = Len(ExpectedBlob(kt[1], kt[2]))

\* C4: when construction or build of a kernel has failed (an error was raised,
\* or a tool of the build exited non-zero) the run is aborted and no artifact
\* has been copied to the target or archive directory in this run.
C4_AbortOnFirstError ==
    (err.phase \in {"construct", "build"} \/ ToolFailed) =>
        /\ pc = "aborted"
        /\ DOMAIN deployedBy = {}

\* C5: a non-zero exit of zcat, objcopy or sbsign ends the build with a
\* SubprocessError: it is the last tool invoked in the run.
C5_ToolFailureStopsVariant ==
    \A n \in 1..Len(calls) :
        calls[n].rc # 0 =>
            /\ n = Len(calls)
            /\ pc = "aborted"
            /\ err.type = "SubprocessError"

\* C6: after a successful run every working directory holds cmdline.txt,
\* initramfs{t}, the unsigned image and the signed image at the unsigned path
\* plus '.signed.efi', and the file of the target directory named
\* {kernelFileName}{t}, for every deployed pair, is a copy of that signed image.
C6_LayoutAndDeployedCopy ==
    Succeeded =>
        \A k \in KernelSet : \A t \in Tags :
            LET unsigned == Path(builddir \o extract_version(k), k \o t)
                signed == Path(unsigned.dir, unsigned.name \o <<".signed.efi">>)
                deployed == Path(targetdir, k \o t)
            IN /\ Path(unsigned.dir, <<"cmdline.txt">>) \in DOMAIN fs
               /\ Path(unsigned.dir, <<"initramfs">> \o t) \in DOMAIN fs
               /\ unsigned \in DOMAIN fs
               /\ signed \in DOMAIN fs
               /\ <<k, t>> \in DOMAIN result /\ result[<<k, t>>] = signed
               /\ ~(t \in FallbackTags /\ ~config.use_fallback) =>
                     /\ deployed \in DOMAIN fs
                     /\ fs[deployed] = fs[signed]
                     /\ fs[deployed] # fs[unsigned]

C8_InitramfsLessBuild ==
    ~config.initramfs =>
        /\ \A n \in 1..Len(calls) : calls[n].tool # "zcat"
        /\ env.fault.tool = "none" => err.phase # "build"
        /\ \A kt \in extractCalled :
              /\ BlobPath(kt[1], kt[2]) \in DOMAIN fs
              /\ fs[BlobPath(kt[1], kt[2])] = <<>>

\* C9: every constructed Kernel has a non-empty version, the file name
\* without the prefix, and a working directory below the build root.
C9_NonEmptyVersion ==
    \A n \in 1..constructed :
        /\ extract_version(kernels[n]) # <<>>
        /\ prefix \o extract_version(kernels[n]) = kernels[n]
        /\ WorkDir(kernels[n]) # builddir

\* C10: within one run no path of the target or archive directory is written
\* for two different (kernel, tag) pairs.
C10_DistinctDeployedNames ==
    \A p \in DOMAIN deployedBy : Cardinality(deployedBy[p]) <= 1

====
